---- MODULE Spec2Model ----
(***************************************************************************)
(* A model of adept/networks/net2d/gpt2.py: the GPT2 decoder stack, its    *)
(* blocks and the causal multi-head attention with a key/value cache.      *)
(*                                                                         *)
(* A tensor is modelled by its shape (a tuple of sizes, as torch reports   *)
(* it) and by its content along the sequence axis: one symbolic term per   *)
(* position.  A term names the function of the inputs that the position    *)
(* holds: two positions hold the same number whenever they hold the same   *)
(* term.  The parameters of block l are named by l in the terms.           *)
(***************************************************************************)
EXTENDS Integers, Sequences, FiniteSets, TLC

\* ------------------------------------------------------------------ bounds
MaxS == 3          \* largest seq_len a module is built with
MaxN == 2          \* largest nb_layer
MaxF == 2          \* largest feat_len
MaxH == 2          \* largest nb_head
MaxLen == 3        \* most tokens the caller feeds in one sequence
MaxSteps == 1      \* optimizer steps after construction

TokenValues == {0, 1}
BatchSizes == {1, 2}

\* -------------------------------------------------------------- arithmetic
Min(a, b) == IF a <= b THEN a ELSE b
Max(a, b) == IF a >= b THEN a ELSE b

\* Python's a[lo:hi] on an axis of size n, lo and hi >= 0: the bounds are
\* clamped to n, never an error.
SliceLo(lo, n) == Min(lo, n)
SliceLen(lo, hi, n) == Max(Min(hi, n) - Min(lo, n), 0)

\* torch broadcasting of one axis: equal sizes, or one of them 1; -1: error
BroadcastDim(a, b) == IF a = b THEN a ELSE IF a = 1 THEN b ELSE IF b = 1 THEN a ELSE -1
\* the index into an axis of size n that element i of the broadcast result reads
BroadcastIdx(i, n) == IF n = 1 THEN 1 ELSE i

\* Bind(v, F): F applied to the value of v, with v evaluated once
Bind(v, F(_)) == CHOOSE y \in {F(x) : x \in {v}} : TRUE

\* -------------------------------------------------------------------- terms
Tok(v) == <<"tok", v>>
QTerm(l, x) == <<"q", l, x>>
KTerm(l, x) == <<"k", l, x>>
VTerm(l, x) == <<"v", l, x>>
AttnTerm(l, q, kvs) == <<"attn", l, q, kvs>>
BlkTerm(l, x, a) == <<"blk", l, x, a>>
LnFTerm(x) == <<"ln_f", 0, x>>

Tensor(shape, pos) == [shape |-> shape, pos |-> pos]
NoTensor == Tensor(<<>>, <<>>)

\* a cache entry: None, or the stacked (key^T, value) tensor
None == [isNone |-> TRUE, shape |-> <<>>, k |-> <<>>, v |-> <<>>]
Cache(shape, k, v) == [isNone |-> FALSE, shape |-> shape, k |-> k, v |-> v]

\* ---------------------------------------------------------------- Attention
\* torch.tril(torch.ones(seq_len, seq_len)), rows and columns counted from 0
Bias(r, c) == IF c <= r THEN 1 ELSE 0

\* Attention.__init__: "ok", or the exception the constructor raises
AttentionInit(feat_len, seq_len, nb_head) ==
    IF nb_head = 0 THEN "ZeroDivisionError"
    ELSE IF feat_len % nb_head # 0 THEN "AssertionError"
    ELSE "ok"

\* Conv1D.forward on a shape: (..., nx) -> (..., nf); <<>> when addmm rejects it
Conv1DShape(shape, nx, nf) ==
    IF shape[Len(shape)] = nx THEN [shape EXCEPT ![Len(shape)] = nf] ELSE <<>>

\* Attention.split_heads on a shape (B, T, F):
\* view (B, T, H, F // H), then permute to (B,H,F//H,T) for a key,
\* (B,H,T,F//H) otherwise; <<>> when view rejects the element count
SplitHeadsShape(shape, n_head, k) ==
    LET hf == shape[3] \div n_head
    IN IF n_head * hf # shape[3] THEN <<>>
       ELSE IF k THEN <<shape[1], n_head, hf, shape[2]>>
       ELSE <<shape[1], n_head, shape[2], hf>>

\* Attention.merge_heads on a shape (B, H, R, hf): permute (B, R, H, hf), view (B, R, H*hf)
MergeHeadsShape(shape) == <<shape[1], shape[3], shape[2] * shape[4]>>

\* x.transpose(-2, -1) on a 4-axis shape
Transpose(shape) == <<shape[1], shape[2], shape[4], shape[3]>>

\* torch.cat along the other of the last two axes
CatShapeOtherAxis(a, b, dim) ==
    IF \A d \in 1..4 : d = 7 - dim \/ a[d] = b[d]
    THEN [a EXCEPT ![7 - dim] = a[7 - dim] + b[7 - dim]] ELSE <<>>

\* torch.cat((a, b), dim) on 4-axis shapes: every other axis must agree
CatShape(a, b, dim) ==
    IF \A d \in 1..4 : d = dim \/ a[d] = b[d]
    THEN [a EXCEPT ![dim] = a[dim] + b[dim]] ELSE <<>>

\* the new entries put before the past ones: torch.cat((new, past))
CatSwapped(past, new) == [result |-> new \o past, past |-> past]

\* the new entries appended to the past tensor itself
CatInPlace(past, new) == [result |-> past \o new, past |-> past \o new]

\* torch.cat((past, new)) on the contents along the sequence axis: a new
\* tensor; the operand past is left as it was
Cat(past, new) == [result |-> past \o new, past |-> past]

\* the slice self.bias[:, :, :nd, :ns]: the rows not offset by the past length
MaskSliceFromTop(nd, ns, S) ==
    [row0 |-> 0,
     rows |-> SliceLen(0, nd, S),
     cols |-> SliceLen(0, ns, S)]

\* the mask slice self.bias[:, :, ns-nd:ns, :ns] of the (1,1,S,S) buffer:
\* its first row in the buffer, its row count and its column count
MaskSlice(nd, ns, S) ==
    [row0 |-> SliceLo(ns - nd, S),
     rows |-> SliceLen(ns - nd, ns, S),
     cols |-> SliceLen(0, ns, S)]

\* whether element (i, j) (from 1) of w * b - 1e10 * (1 - b) keeps its score:
\* the element of the mask slice that broadcasting pairs with it is 1
Permits(i, j, nd, ns, S) ==
    LET m == MaskSlice(nd, ns, S)
    IN Bias(m.row0 + BroadcastIdx(i, m.rows) - 1, BroadcastIdx(j, m.cols) - 1) = 1

\* the key columns (from 1) that row i of the softmax gives weight to
Attended(i, nd, ns, S) == {j \in 1..ns : Permits(i, j, nd, ns, S)}

RECURSIVE Pairs(_, _, _, _)
\* the (key, value) pairs of the columns in cols, in column order from j on
Pairs(ks, vs, cols, j) ==
    IF j > Len(ks) THEN <<>>
    ELSE (IF j \in cols THEN << <<ks[j], vs[j]>> >> ELSE <<>>) \o Pairs(ks, vs, cols, j + 1)

\* Attention._attn on q (B,H,nd,hf), k (B,H,hf,ns), v (B,H,ns,hf) of block l
Attn(l, q, k, v, S) ==
    LET nd == q.shape[3]
        ns == k.shape[4]
        m == MaskSlice(nd, ns, S)
        R == BroadcastDim(nd, m.rows)
        C == BroadcastDim(ns, m.cols)
    IN IF R = -1 \/ C = -1
       THEN [status |-> "RuntimeError: size of tensor a must match size of tensor b",
             a |-> NoTensor, attended |-> <<>>]
       ELSE IF C # ns
       THEN [status |-> "RuntimeError: matmul size mismatch", a |-> NoTensor, attended |-> <<>>]
       ELSE [status |-> "ok",
             a |-> Tensor(<<q.shape[1], q.shape[2], R, v.shape[4]>>,
                          [i \in 1..R |->
                             AttnTerm(l, q.pos[BroadcastIdx(i, nd)],
                                      Pairs(k.pos, v.pos, Attended(i, nd, ns, S), 1))]),
             attended |-> [i \in 1..R |-> Attended(i, nd, ns, S)]]

\* Attention.forward of block l on x (already through ln_1) with layer_past.
\* The result records the call: the past length P, the input length T, the
\* input shape, the output a, the shape of key as _attn gets it, the cache
\* present, the columns each row attended, layer_past as given and as left.
AttentionForward(l, x, layer_past, F, H, S) ==
    LET P == IF layer_past.isNone THEN 0 ELSE layer_past.shape[4]
        T == x.shape[2]
        c == Conv1DShape(x.shape, F, 3 * F)
        xs == [c EXCEPT ![3] = F]       \* each of the three chunks of x.split(F, dim=2)
        qs == SplitHeadsShape(xs, H, FALSE)
        ks == SplitHeadsShape(xs, H, TRUE)
        vs == SplitHeadsShape(xs, H, FALSE)
        query == Tensor(qs, [i \in 1..T |-> QTerm(l, x.pos[i])])
        newk == [i \in 1..T |-> KTerm(l, x.pos[i])]
        newv == [i \in 1..T |-> VTerm(l, x.pos[i])]
        \* layer_past[0].transpose(-2, -1), layer_past[1]
        pastK == Transpose(<<layer_past.shape[2], layer_past.shape[3],
                             layer_past.shape[4], layer_past.shape[5]>>)
        pastV == <<layer_past.shape[2], layer_past.shape[3],
                   layer_past.shape[4], layer_past.shape[5]>>
        kshape == IF layer_past.isNone THEN ks ELSE CatShape(pastK, ks, 4)
        vshape == IF layer_past.isNone THEN vs ELSE CatShape(pastV, vs, 3)
        catk == Cat(layer_past.k, newk)
        catv == Cat(layer_past.v, newv)
        key == Tensor(kshape, IF layer_past.isNone THEN newk ELSE catk.result)
        value == Tensor(vshape, IF layer_past.isNone THEN newv ELSE catv.result)
        \* layer_past as the call leaves it
        past == IF layer_past.isNone THEN None
                ELSE Cache(layer_past.shape, catk.past, catv.past)
        \* torch.stack((key.transpose(-2, -1), value))
        present == Cache(<<2>> \o Transpose(kshape), key.pos, value.pos)
        fail(s, p) == [status |-> s, P |-> P, T |-> T, in |-> x.shape, a |-> NoTensor,
                       key |-> <<>>, present |-> None, attended |-> <<>>,
                       layer_past |-> layer_past, past |-> p]
        merged(r) == MergeHeadsShape(r.a.shape)
        out(r) == Conv1DShape(merged(r), F, F)
    IN IF c = <<>> THEN fail("RuntimeError: addmm size mismatch", layer_past)
       ELSE IF qs = <<>> THEN fail("RuntimeError: view size", layer_past)
       ELSE IF kshape = <<>> \/ vshape = <<>>
       THEN fail("RuntimeError: Sizes of tensors must match except in dimension", layer_past)
       ELSE IF Transpose(kshape) # vshape
       THEN fail("RuntimeError: stack expects equal size", past)
       ELSE Bind(Attn(l, query, key, value, S), LAMBDA r :
            IF r.status # "ok" THEN fail(r.status, past)
            ELSE IF out(r) = <<>> THEN fail("RuntimeError: addmm size mismatch", past)
            ELSE [status |-> "ok", P |-> P, T |-> T, in |-> x.shape,
                  a |-> Tensor(out(r), r.a.pos), key |-> kshape, present |-> present,
                  attended |-> r.attended, layer_past |-> layer_past, past |-> past])

\* -------------------------------------------------------------------- Block
\* Block.forward of block l: x + attn(ln_1(x)), then x + mlp(ln_2(x))
BlockForward(l, x, layer_past, F, H, S) ==
    Bind(AttentionForward(l, x, layer_past, F, H, S), LAMBDA call :
       LET R == BroadcastDim(x.shape[2], call.a.shape[2])
       IN IF call.status # "ok" THEN [status |-> call.status, x |-> NoTensor, call |-> call]
          ELSE IF R = -1
          THEN [status |-> "RuntimeError: size of tensor a must match size of tensor b",
                x |-> NoTensor, call |-> call]
          ELSE [status |-> "ok",
                x |-> Tensor([x.shape EXCEPT ![2] = R],
                             [i \in 1..R |-> BlkTerm(l, x.pos[BroadcastIdx(i, x.shape[2])],
                                                     call.a.pos[BroadcastIdx(i, call.a.shape[2])])]),
                call |-> call])

\* --------------------------------------------------------------------- GPT2
\* GPT2._new_internals: dict(enumerate([None] * nb_layer))
NewInternals(nb_layer) == [i \in 0..(nb_layer - 1) |-> None]

\* dict(enumerate(list, 1)): keys 1..len
DictEnumerateFromOne(list) == [i \in 1..Len(list) |-> list[i]]

\* dict(enumerate(list)): keys 0..len-1
DictEnumerate(list) == [i \in 0..(Len(list) - 1) |-> list[i + 1]]

RECURSIVE Layers(_, _, _, _, _, _)
\* the loop of GPT2._forward from layer i on: x is the running activation,
\* internals the mapping given (as the calls so far have left it),
\* new_internals the list built so far, calls the attention calls made so far
Layers(i, x, internals, new_internals, calls, c) ==
    IF i >= c.N
    THEN [status |-> "ok", x |-> x, internals |-> internals,
          new_internals |-> new_internals, calls |-> calls]
    ELSE IF i \notin DOMAIN internals
    THEN [status |-> "KeyError", x |-> NoTensor, internals |-> internals,
          new_internals |-> new_internals, calls |-> calls]
    ELSE Bind(BlockForward(i, x, internals[i], c.F, c.H, c.S), LAMBDA r :
            Bind([internals |-> [internals EXCEPT ![i] = r.call.past],
                  new_internals |-> Append(new_internals, r.call.present),
                  calls |-> Append(calls, r.call)], LAMBDA acc :
               IF r.status # "ok"
               THEN [status |-> r.status, x |-> NoTensor, internals |-> acc.internals,
                     new_internals |-> new_internals, calls |-> acc.calls]
               ELSE Layers(i + 1, r.x, acc.internals, acc.new_internals, acc.calls, c)))

\* GPT2._forward(input, internals): the output tensor (through ln_f), the new
\* mapping, the attention call of every block that ran, and the mapping that
\* was passed in as the call leaves it
GPT2Forward(input, internals, c) ==
    Bind(Layers(0, input, internals, <<>>, <<>>, c), LAMBDA r :
       IF r.status # "ok"
       THEN [status |-> r.status, x |-> NoTensor, new_internals |-> <<>>,
             calls |-> r.calls, internals |-> r.internals]
       ELSE [status |-> "ok",
             x |-> Tensor(r.x.shape, [i \in 1..Len(r.x.pos) |-> LnFTerm(r.x.pos[i])]),
             new_internals |-> DictEnumerate(r.new_internals),
             calls |-> r.calls, internals |-> r.internals])

\* Block.__init__ builds its Attention: the constructor's outcome
BlockInit(seq_len, feat_len, nb_head) == AttentionInit(feat_len, seq_len, nb_head)

\* a Block built only inside the loop over the layers
GPT2InitLazy(input_shape, nb_layer, nb_head) ==
    IF nb_layer = 0 THEN "ok" ELSE BlockInit(input_shape[1], input_shape[2], nb_head)

\* GPT2.__init__: one Block is built before the copies are made, whatever nb_layer
GPT2Init(input_shape, nb_layer, nb_head) ==
    BlockInit(input_shape[1], input_shape[2], nb_head)

\* GPT2._output_shape
OutputShape(input_shape) == input_shape

\* the input tensor (B, T, F) holding the tokens of chunk
Input(B, chunk, F) == Tensor(<<B, Len(chunk), F>>, [i \in 1..Len(chunk) |-> Tok(chunk[i])])

\* --------------------------------------------------------------- parameters
\* The parameters of a Block, by module class.  ln_2 is a further LayerNorm
\* and attn.c_proj, mlp.c_fc and mlp.c_proj are further Conv1D modules.
BlockParams ==
    << [module |-> "ln_1", class |-> "LayerNorm", param |-> "weight"],
       [module |-> "ln_1", class |-> "LayerNorm", param |-> "bias"],
       [module |-> "attn.c_attn", class |-> "Conv1D", param |-> "weight"],
       [module |-> "attn.c_attn", class |-> "Conv1D", param |-> "bias"] >>

NP == Len(BlockParams)

\* A parameter value is symbolic: <<how it was set, which draw, how many
\* optimizer updates since>>.  Two values are the same tensor content exactly
\* when they are the same triple.
Ones == <<"ones", 0, 0>>
Zeros == <<"zeros", 0, 0>>
Normal(draw) == <<"normal", draw, 0>>
Updated(v) == <<v[1], v[2], v[3] + 1>>

\* the values LayerNorm.__init__ and Conv1D.__init__ give parameter k of the
\* Block built at line 32, whose storage is at addresses 1..NP
ProtoValue(k) ==
    IF BlockParams[k].class = "LayerNorm"
    THEN (IF BlockParams[k].param = "weight" THEN Ones ELSE Zeros)
    ELSE (IF BlockParams[k].param = "weight" THEN Normal(k) ELSE Zeros)

\* copy.deepcopy(block), the i-th: the address of each parameter's own storage
DeepCopy(i) == [k \in 1..NP |-> NP * (i + 1) + k]

\* nn.ModuleList([block for _ in range(nb_layer)]): every entry the one Block
ModuleListShared(nb_layer) == [i \in 0..(nb_layer - 1) |-> [k \in 1..NP |-> k]]

\* nn.ModuleList([copy.deepcopy(block) for _ in range(nb_layer)])
ModuleList(nb_layer) == [i \in 0..(nb_layer - 1) |-> DeepCopy(i)]

\* GPT2._init_weights on one parameter of a module of the given class
InitWeights(class, param, value, addr) ==
    IF class \in {"Linear", "Embedding"}
    THEN (IF param = "weight" THEN Normal(addr)
          ELSE IF class = "Linear" THEN Zeros ELSE value)
    ELSE IF class = "LayerNorm"
    THEN (IF param = "bias" THEN Zeros ELSE Ones)
    ELSE value

\* the parameter of a block that an address stores
ParamAt(addr) == BlockParams[((addr - 1) % NP) + 1]

\* the store after GPT2.__init__: every copy holds the values of the Block
\* it was copied from, then self.apply(self._init_weights) visits each module
InitialStore(h) ==
    [a \in UNION {{h[i][k] : k \in 1..NP} : i \in DOMAIN h} |->
        InitWeights(ParamAt(a).class, ParamAt(a).param, ProtoValue(((a - 1) % NP) + 1), a)]

\* -------------------------------------------------------------------- state
VARIABLES
    built,      \* "none", "ok", or the exception GPT2.__init__ raised
    cfg,        \* [S, F, H, N]: seq_len, feat_len, nb_head, nb_layer
    h,          \* self.h: per block, the address of each parameter's storage
    store,      \* parameter storage: address -> value
    steps,      \* optimizer steps taken
    internals,  \* the per-layer cache mapping the caller threads
    seq,        \* the tokens fed so far in this sequence
    outs,       \* the outputs returned so far, one term per position
    att,        \* per layer, the key columns each position attended
    last        \* the last forward call

vars == <<built, cfg, h, store, steps, internals, seq, outs, att, last>>

NoLast == [status |-> "none", B |-> 0, input |-> NoTensor, arg |-> <<>>, argAfter |-> <<>>,
           ret |-> <<>>, x |-> NoTensor, calls |-> <<>>, replay |-> "none"]

Init ==
    /\ built = "none"
    /\ cfg = [S |-> 0, F |-> 0, H |-> 0, N |-> 0]
    /\ h = <<>>
    /\ store = <<>>
    /\ steps = 0
    /\ internals = <<>>
    /\ seq = <<>>
    /\ outs = <<>>
    /\ att = <<>>
    /\ last = NoLast

\* GPT2(input_shape = (S, F), id, nb_layer, nb_head, eps), then _new_internals()
Construct(S, F, H, N) ==
    /\ built = "none"
    /\ built' = GPT2Init(<<S, F>>, N, H)
    /\ cfg' = [S |-> S, F |-> F, H |-> H, N |-> N]
    /\ h' = IF built' = "ok" THEN ModuleList(N) ELSE <<>>
    /\ store' = IF built' = "ok" THEN InitialStore(h') ELSE <<>>
    /\ internals' = IF built' = "ok" THEN NewInternals(N) ELSE <<>>
    /\ att' = IF built' = "ok" THEN [i \in 1..N |-> <<>>] ELSE <<>>
    /\ UNCHANGED <<steps, seq, outs, last>>

\* the optimizer updates parameter k of block i in place
OptimizerStep(i, k) ==
    /\ built = "ok"
    /\ steps < MaxSteps
    /\ i \in DOMAIN h
    /\ store' = [store EXCEPT ![h[i][k]] = Updated(@)]
    /\ steps' = steps + 1
    /\ UNCHANGED <<built, cfg, h, internals, seq, outs, att, last>>

\* the caller starts a fresh sequence
StartSequence ==
    /\ built = "ok"
    /\ seq # <<>>
    /\ internals' = NewInternals(cfg.N)
    /\ seq' = <<>>
    /\ outs' = <<>>
    /\ att' = [i \in 1..cfg.N |-> <<>>]
    /\ last' = NoLast
    /\ UNCHANGED <<built, cfg, h, store, steps>>

\* the caller runs _forward on a chunk with the mapping it holds, and keeps
\* the returned mapping for the next call; an exception returns nothing and
\* the caller still holds the mapping it passed.  A sequence is decoded at
\* one batch size.
Forward(B, chunk) ==
    /\ built = "ok"
    /\ Len(seq) + Len(chunk) <= MaxLen
    /\ last.status = "none" \/ B = last.B
    /\ \E input \in {Input(B, chunk, cfg.F)} : \E r \in {GPT2Forward(input, internals, cfg)} :
          /\ last' = [status |-> r.status, B |-> B, input |-> input, arg |-> internals,
                      argAfter |-> r.internals, ret |-> r.new_internals, x |-> r.x,
                      calls |-> r.calls, replay |-> "none"]
          /\ IF r.status = "ok"
             THEN /\ internals' = r.new_internals
                  /\ seq' = seq \o chunk
                  /\ outs' = outs \o r.x.pos
                  /\ att' = [i \in 1..cfg.N |-> att[i] \o r.calls[i].attended]
             ELSE /\ internals' = r.internals
                  /\ UNCHANGED <<seq, outs, att>>
    /\ UNCHANGED <<built, cfg, h, store, steps>>

\* the caller repeats the last call: the same input, and the mapping it
\* passed then, as that mapping is now
Replay ==
    /\ built = "ok"
    /\ last.status # "none"
    /\ last.replay = "none"
    /\ \E r \in {GPT2Forward(last.input, last.argAfter, cfg)} :
          last' = [last EXCEPT !.replay =
                      IF r.status = last.status /\ r.x = last.x /\ r.new_internals = last.ret
                      THEN "same" ELSE "different"]
    /\ UNCHANGED <<built, cfg, h, store, steps, internals, seq, outs, att>>

Chunks == UNION {[1..n -> TokenValues] : n \in 1..MaxLen}

Next ==
    \/ \E S \in 1..MaxS, F \in 1..MaxF, H \in 0..MaxH, N \in 0..MaxN : Construct(S, F, H, N)
    \/ StartSequence
    \/ \E B \in BatchSizes, chunk \in Chunks : Forward(B, chunk)
    \/ Replay

Spec == Init /\ [][Next]_vars

\* construction and training steps only
NextParams ==
    \/ \E S \in 1..MaxS, F \in 1..MaxF, H \in 0..MaxH, N \in 0..MaxN : Construct(S, F, H, N)
    \/ \E i \in 0..(MaxN - 1), k \in 1..NP : OptimizerStep(i, k)

SpecParams == Init /\ [][NextParams]_vars

\* ------------------------------------------------------------------- claims
\* the attention calls of the last forward call, one per block that ran
LastCalls == {last.calls[n] : n \in 1..Len(last.calls)}

\* the call stayed within the seq_len the module was built with
WithinMax(call) == call.P + call.T <= cfg.S

\* C1: in every attention call that stays within seq_len (P + T <= S, T >= 1),
\* the sliced mask lets query row i (from 0) attend key column j (from 0)
\* exactly when j <= P + i; every other column is masked.
C1_MaskIsCausal ==
    \A call \in LastCalls :
        (call.status = "ok" /\ WithinMax(call) /\ call.T >= 1) =>
            /\ Len(call.attended) = call.T
            /\ \A i \in 0..(call.T - 1) :
                  call.attended[i + 1] = {j + 1 : j \in {jj \in 0..(call.P + call.T - 1) : jj <= call.P + i}}

\* a call with a past prefix and several rows, within seq_len
C1_Witness ==
    \E call \in LastCalls : call.status = "ok" /\ WithinMax(call) /\ call.P >= 1 /\ call.T >= 2

\* the whole sequence fed so far, run once from _new_internals()
FullRun == GPT2Forward(Input(1, seq, cfg.F), NewInternals(cfg.N), cfg)

\* C2: whenever the tokens fed so far (in any chunking, token by token
\* included) number at most seq_len, the outputs collected call by call equal,
\* position by position, the outputs of one run over the whole sequence, and
\* so do the key positions every position attended in every layer.
C2_IncrementalEqualsFull ==
    (built = "ok" /\ seq # <<>> /\ Len(seq) <= cfg.S) =>
        \E full \in {FullRun} :
            /\ full.status = "ok"
            /\ outs = full.x.pos
            /\ \A l \in 1..cfg.N : att[l] = full.calls[l].attended

\* two tokens fed one per call through two blocks: the second call extends
\* the one-token caches of the first
C2_Witness ==
    /\ built = "ok" /\ cfg.N = 2 /\ Len(seq) = 2 /\ last.status = "ok"
    /\ \A call \in LastCalls : call.T = 1 /\ call.P = 1

\* the chunks of the last call's length that agree with it up to position t
AgreeUpTo(t) ==
    {alt \in [1..last.input.shape[2] -> TokenValues] :
        \A u \in 1..t : Tok(alt[u]) = last.input.pos[u]}

\* the last call's outputs at position t do not depend on the input after t
Unaffected(t) ==
    \A alt \in AgreeUpTo(t) :
        \E r \in {GPT2Forward(Input(last.B, alt, cfg.F), last.arg, cfg)} :
            /\ r.status = "ok"
            /\ Len(r.calls) = Len(last.calls)
            /\ \A n \in 1..Len(last.calls) :
                  t <= Len(last.calls[n].a.pos) =>
                      /\ t <= Len(r.calls[n].a.pos)
                      /\ r.calls[n].a.pos[t] = last.calls[n].a.pos[t]

C3_NonInterferenceWithinMax ==
    (last.status = "ok" /\ Len(seq) <= cfg.S) =>
        \A t \in 1..last.input.shape[2] : Unaffected(t)

C3_WithinMaxWitness ==
    /\ last.status = "ok" /\ Len(seq) <= cfg.S /\ cfg.N = 2
    /\ last.input.shape[2] = 2 /\ last.calls[1].P = 1

\* C4: an attention call whose total length P + T exceeds seq_len fails; it
\* never returns an output or a cache.
C4_OverlongCallFails ==
    \A call \in LastCalls : (call.T >= 1 /\ ~WithinMax(call)) => call.status # "ok"

\* C4, for modules built with seq_len >= 2: the call fails; with a past of
\* the call's batch size it fails when the sliced mask is applied to the
\* scores (the slice itself is clamped, not an error)
C4_OverlongCallFailsFromTwo ==
    \A call \in LastCalls :
        (call.T >= 1 /\ ~WithinMax(call) /\ cfg.S >= 2) =>
            /\ call.status # "ok"
            /\ (call.layer_past.isNone \/ call.layer_past.shape[2] = call.in[1]) =>
                  call.status = "RuntimeError: size of tensor a must match size of tensor b"

CachedInput(i, t) == internals[i].k[t][3]

\* C6: from _new_internals() on, after any returned forward calls whose chunk
\* lengths sum to at most seq_len, the mapping held has exactly the keys
\* 0..N-1; before the first call every entry is None; afterwards entry i is
\* the cache block i produced (block 0 fed by the input, block i+1 by block
\* i's output) and every layer's cached length is the number of tokens fed.
C6_ThreadedCaches ==
    (built = "ok" /\ Len(seq) <= cfg.S) =>
        /\ DOMAIN internals = 0..(cfg.N - 1)
        /\ \A i \in 0..(cfg.N - 1) :
              IF seq = <<>> THEN internals[i] = None
              ELSE /\ ~internals[i].isNone
                   /\ internals[i].shape[4] = Len(seq)
                   /\ Len(internals[i].k) = Len(seq)
                   /\ Len(internals[i].v) = Len(seq)
                   /\ \A t \in 1..Len(seq) :
                        /\ internals[i].k[t] = KTerm(i, CachedInput(i, t))
                        /\ internals[i].v[t] = VTerm(i, CachedInput(i, t))
                        /\ IF i = 0 THEN CachedInput(i, t) = Tok(seq[t])
                           ELSE /\ CachedInput(i, t)[1] = "blk"
                                /\ CachedInput(i, t)[2] = i - 1
                                /\ CachedInput(i, t)[3] = CachedInput(i - 1, t)
        /\ last.status = "ok" =>
              /\ internals = last.ret
              /\ \A i \in 0..(cfg.N - 1) : last.ret[i] = last.calls[i + 1].present

\* two chunks fed through two blocks, within seq_len
C6_Witness ==
    /\ built = "ok" /\ cfg.N = 2 /\ Len(seq) = 3 /\ last.status = "ok"
    /\ last.input.shape[2] = 2 /\ last.calls[1].P = 1

\* C7: a forward call leaves the mapping it was given, and every cache in
\* it, as they were; the mapping it returns is another one; repeating the
\* call with the same old mapping and the same input gives the same result.
C7_ArgumentUnchanged ==
    last.status # "none" =>
        /\ last.argAfter = last.arg
        /\ internals = (IF last.status = "ok" THEN last.ret ELSE last.arg)
        /\ (last.status = "ok" /\ seq # <<>> /\ cfg.N >= 1) => last.ret # last.arg
        /\ last.replay \in {"none", "same"}

\* a returned call that extended caches, repeated
C7_Witness ==
    /\ last.status = "ok" /\ last.replay = "same" /\ cfg.N >= 1
    /\ \A i \in DOMAIN last.arg : ~last.arg[i].isNone

\* C8: construction fails at once when feat_len is not divisible by nb_head,
\* whatever nb_layer (0 included), and succeeds when it is; no forward call
\* is ever made on a module whose construction failed.
C8_ConstructionFails ==
    built # "none" =>
        /\ (cfg.H >= 1 /\ cfg.F % cfg.H # 0) => built = "AssertionError"
        /\ (cfg.H >= 1 /\ cfg.F % cfg.H = 0) => built = "ok"
        /\ built # "ok" => (last = NoLast /\ internals = <<>> /\ seq = <<>> /\ h = <<>>)

\* a stack of no layers whose feat_len is not divisible by nb_head
C8_Witness == built = "AssertionError" /\ cfg.N = 0

\* C9: every returned attention call gives an output of its input's shape
\* (B,T,F), whatever the past length, and the stack's output has the shape
\* of its input; output_shape is input_shape.
C9_ShapePreserved ==
    /\ \A call \in LastCalls : call.status = "ok" => call.a.shape = call.in
    /\ last.status = "ok" => last.x.shape = last.input.shape
    /\ built = "ok" => OutputShape(<<cfg.S, cfg.F>>) = <<cfg.S, cfg.F>>

\* C9, for the calls that stay within seq_len
C9_ShapePreservedWithinMax ==
    /\ \A call \in LastCalls :
          (call.status = "ok" /\ WithinMax(call)) =>
              call.a.shape = call.in /\ call.in = <<last.B, call.T, cfg.F>>
    /\ (last.status = "ok" /\ Len(seq) <= cfg.S) => last.x.shape = last.input.shape

C9_WithinMaxWitness ==
    \E call \in LastCalls :
        call.status = "ok" /\ WithinMax(call) /\ call.P >= 1 /\ cfg.H = 2 /\ last.B = 2

\* the values block i holds, parameter by parameter
BlockValues(i) == [k \in 1..NP |-> store[h[i][k]]]

\* right after construction the blocks hold pairwise-identical values
IdenticalAtConstruction ==
    (built = "ok" /\ steps = 0) =>
        \A i, j \in DOMAIN h : BlockValues(i) = BlockValues(j)

\* no two blocks share the storage of a parameter
NoSharedStorage ==
    \A i, j \in DOMAIN h : i # j => \A k, m \in 1..NP : h[i][k] # h[j][m]

\* a step that changes a parameter of block i leaves every other block unchanged
OthersUnchanged ==
    \A i \in DOMAIN h :
        (i \in DOMAIN h' /\ BlockValues(i)' # BlockValues(i)) =>
            \A j \in DOMAIN h : j # i => (j \in DOMAIN h' /\ BlockValues(j)' = BlockValues(j))

\* C10: right after construction all blocks hold pairwise-identical
\* parameter values (deep copies of one Block; _init_weights does not redraw
\* Conv1D weights), no two blocks share parameter storage, and changing a
\* parameter of block i leaves every block j # i unchanged.
C10_IdenticalButIndependent ==
    /\ [](IdenticalAtConstruction /\ NoSharedStorage)
    /\ [][OthersUnchanged]_vars

\* two blocks, one of which the optimizer has changed
C10_Witness ==
    /\ built = "ok" /\ cfg.N = 2 /\ steps = 1
    /\ BlockValues(0) # BlockValues(1)
    /\ BlockValues(1)[3] = Normal(3)

====
